---- MODULE Spec2Model ----
(***************************************************************************)
(* BloomWatch front end (App component).  The repository holds two         *)
(* variants of the component in src/unnamed/part_003:                      *)
(*   variant 1  lines   14..550   (debounce, concurrent Promise.all        *)
(*                                 fan-out, forecast, client-side summary) *)
(*   variant 2  lines  564..1055  (place-name cache, sequential calls,     *)
(*                                 server-side analysis report)            *)
(* The model keeps one state machine; `variant` says which component is    *)
(* mounted.  React state is one variable per useState hook; the async      *)
(* function fetchAll is cut at its await points.                           *)
(*                                                                         *)
(* Units: coordinates are integers in 1/Scale of a degree, NDVI values     *)
(* are integers in thousandths, time is in milliseconds.                   *)
(***************************************************************************)
EXTENDS Integers, Sequences, FiniteSets, TLC

VARIABLES
    variant,          \* 1 or 2: which App component is mounted
    FRONTEND_ONLY,    \* build-time flag VITE_FRONTEND_ONLY
    clock,            \* Date.now()
    latitude, longitude, roiSize,            \* user inputs (useState)
    latInput, lonInput,                      \* the text of the coordinate boxes
    threshold,                               \* bloom threshold, in thousandths
    ndvi, peaks, forecastDates, forecastValues, thumbUrl, analysis,
    loading, lastFetchTime, info, hasResults, hasRun,
    placeName, locationLoading, locationCache,
    pc,               \* where the running fetchAll is suspended
    req,              \* what the running fetchAll closed over when it was called
                      \* (NoReq once the invocation has ended)
    calls,            \* per upstream call: "none", "pending", "ok", "fail"
    resp,             \* variant 1: the responses held until Promise.all settles
    geoCalls,         \* number of reverse-geocoding requests sent so far
    nStarted,         \* number of fetchAll invocations that passed the debounce
    fanLog,           \* requests that issued an upstream analytic call
    geoKey,           \* key of the coordinate fetchLocationName last returned for
    geoResp,          \* what the provider answered to the last resolution (recorded
                      \* by the place-name specifications only)
    lastEndTime       \* Date.now() when the last fetchAll invocation ended (recorded
                      \* by the timed specification only)

inputVars  == <<latitude, longitude, roiSize, latInput, lonInput, threshold>>
resultVars == <<ndvi, peaks, forecastDates, forecastValues, thumbUrl, analysis>>
flagVars   == <<loading, lastFetchTime, info, hasResults, hasRun>>
geoVars    == <<placeName, locationLoading, locationCache, geoCalls>>
asyncVars  == <<pc, req, calls, resp>>
envVars    == <<variant, FRONTEND_ONLY>>
ghostVars  == <<nStarted, fanLog, geoKey, geoResp>>
vars == <<envVars, clock, inputVars, resultVars, flagVars, geoVars, asyncVars, ghostVars,
          lastEndTime>>

---------------------------------------------------------------------------
(* Bounds of the model *)
Scale    == 8       \* coordinate resolution: 1/Scale degree
MaxRuns  == 2       \* fetchAll invocations that pass the debounce
MaxTicks == 2       \* clock ticks
TickMs   == 1000    \* length of one clock tick
TicksPerDay  == 2   \* instants of a day that a Date string can name
DaysPerMonth == 30  \* days of a month of the model's calendar
Today    == 40      \* the day on which the component runs
EpochMs  == 10000   \* Date.now() when the component mounts

(* Program constants *)
DebounceMs == 2000

Null == "null"                      \* JavaScript null for string-valued state
Deg(n) == n * Scale
Abs(n) == IF n < 0 THEN 0 - n ELSE n
Min(a, b) == IF a < b THEN a ELSE b
Max(a, b) == IF a > b THEN a ELSE b

RECURSIVE Join(_, _)
\* Array.prototype.join
Join(parts, sep) ==
    IF Len(parts) = 0 THEN ""
    ELSE IF Len(parts) = 1 THEN parts[1]
    ELSE parts[1] \o sep \o Join(Tail(parts), sep)

Pad2(n) == IF n < 10 THEN "0" \o ToString(n) ELSE ToString(n)

\* Number.prototype.toFixed(2) of k/Scale, k >= 0: the nearest hundredth, the
\* larger one on an exact tie.
toFixed2(k) ==
    LET h == (200 * k + Scale) \div (2 * Scale)
    IN  ToString(h \div 100) \o "." \o Pad2(h % 100)

---------------------------------------------------------------------------
(* Reverse geocoding *)

RegionNames1 == {"North America", "South America", "Europe", "Africa", "Asia",
                 "Australia/Oceania", "Pacific Ocean", "Atlantic Ocean", "Unknown Region"}

region1(lat, lon) ==
    IF lat >= Deg(25) /\ lat <= Deg(50) /\ lon >= Deg(-125) /\ lon <= Deg(-65) THEN "North America"
    ELSE IF lat >= Deg(-35) /\ lat <= Deg(12) /\ lon >= Deg(-80) /\ lon <= Deg(-35) THEN "South America"
    ELSE IF lat >= Deg(35) /\ lat <= Deg(70) /\ lon >= Deg(-10) /\ lon <= Deg(40) THEN "Europe"
    ELSE IF lat >= Deg(-35) /\ lat <= Deg(37) /\ lon >= Deg(-18) /\ lon <= Deg(52) THEN "Africa"
    ELSE IF lat >= Deg(-10) /\ lat <= Deg(55) /\ lon >= Deg(40) /\ lon <= Deg(145) THEN "Asia"
    ELSE IF lat >= Deg(-45) /\ lat <= Deg(-10) /\ lon >= Deg(110) /\ lon <= Deg(155) THEN "Australia/Oceania"
    ELSE IF Abs(lon) > Deg(150) \/ Abs(lon) < Deg(30)
         THEN (IF Abs(lat) < Deg(50) THEN "Pacific Ocean" ELSE "Unknown Region")
    ELSE IF lon >= Deg(-70) /\ lon <= Deg(-20) /\ Abs(lat) < Deg(55) THEN "Atlantic Ocean"
    ELSE "Unknown Region"

region2(lat, lon) ==
    IF lat >= Deg(25) /\ lat <= Deg(50) /\ lon >= Deg(-125) /\ lon <= Deg(-65) THEN "North America"
    ELSE IF lat >= Deg(-35) /\ lat <= Deg(12) /\ lon >= Deg(-80) /\ lon <= Deg(-35) THEN "South America"
    ELSE IF lat >= Deg(35) /\ lat <= Deg(70) /\ lon >= Deg(-10) /\ lon <= Deg(40) THEN "Europe"
    ELSE IF lat >= Deg(-35) /\ lat <= Deg(37) /\ lon >= Deg(-18) /\ lon <= Deg(52) THEN "Africa"
    ELSE IF lat >= Deg(-10) /\ lat <= Deg(55) /\ lon >= Deg(40) /\ lon <= Deg(145) THEN "Asia"
    ELSE IF lat >= Deg(-45) /\ lat <= Deg(-10) /\ lon >= Deg(110) /\ lon <= Deg(155) THEN "Australia/Oceania"
    ELSE IF Abs(lon) > Deg(150) \/ Abs(lon) < Deg(30) THEN "Pacific Ocean"
    ELSE "Unknown Region"

\* a hemisphere test that puts the equator in the south
latDir_strict(lat) == IF lat > 0 THEN "N" ELSE "S"

latDir(lat) == IF lat >= 0 THEN "N" ELSE "S"
lonDir(lon) == IF lon >= 0 THEN "E" ELSE "W"

fallbackFormat(region, lat, lon) ==
    region \o " (" \o toFixed2(Abs(lat)) \o "°" \o latDir(lat) \o ", "
           \o toFixed2(Abs(lon)) \o "°" \o lonDir(lon) \o ")"

generateFallbackLocation1(lat, lon) == fallbackFormat(region1(lat, lon), lat, lon)
generateFallbackLocation2(lat, lon) == fallbackFormat(region2(lat, lon), lat, lon)

generateFallbackLocation(v, lat, lon) ==
    IF v = 1 THEN generateFallbackLocation1(lat, lon) ELSE generateFallbackLocation2(lat, lon)

\* Nominatim address object; "" is an absent (or empty, equally falsy) field.
NoAddr == [city |-> "", town |-> "", village |-> "", county |-> "",
           state |-> "", region |-> "", province |-> "", country |-> ""]

\* parts that take every place and every administrative field that is present
addressParts_all(addr) ==
    LET one(f) == IF addr[f] # "" THEN <<addr[f]>> ELSE <<>>
    IN  one("city") \o one("town") \o one("village") \o one("county")
        \o one("state") \o one("region") \o one("province") \o one("country")

\* parts of the label, lines 68-79 / 607-615
addressParts(addr) ==
    LET place == IF addr.city # "" THEN <<addr.city>>
                 ELSE IF addr.town # "" THEN <<addr.town>>
                 ELSE IF addr.village # "" THEN <<addr.village>>
                 ELSE IF addr.county # "" THEN <<addr.county>>
                 ELSE <<>>
        admin == IF addr.state # "" THEN <<addr.state>>
                 ELSE IF addr.region # "" THEN <<addr.region>>
                 ELSE IF addr.province # "" THEN <<addr.province>>
                 ELSE <<>>
        country == IF addr.country # "" THEN <<addr.country>> ELSE <<>>
    IN  place \o admin \o country

\* What the reverse-geocoding provider can answer.  kind "ok" is an HTTP
\* success: hasData is whether res.data is an object, hasAddress whether
\* res.data.address is, display the comma-separated segments of
\* res.data.display_name (<<>> when absent).  The other kinds reject.
GeoOutcomes ==
    { [kind |-> "ok", hasData |-> TRUE, hasAddress |-> TRUE,
       addr |-> [NoAddr EXCEPT !.city = "Paris", !.country = "France"],
       display |-> <<"Paris", "Ile-de-France", "Metropolitan France", "France">>],
      [kind |-> "ok", hasData |-> TRUE, hasAddress |-> TRUE,
       addr |-> [NoAddr EXCEPT !.county = "Fresno County", !.state = "California"],
       display |-> <<>>],
      [kind |-> "ok", hasData |-> TRUE, hasAddress |-> TRUE, addr |-> NoAddr,
       display |-> <<"Gulf of Guinea", "Atlantic", "Ocean", "Earth">>],
      [kind |-> "ok", hasData |-> TRUE, hasAddress |-> TRUE, addr |-> NoAddr, display |-> <<>>],
      [kind |-> "ok", hasData |-> TRUE, hasAddress |-> FALSE, addr |-> NoAddr, display |-> <<>>],
      [kind |-> "ok", hasData |-> FALSE, hasAddress |-> FALSE, addr |-> NoAddr, display |-> <<>>],
      [kind |-> "timeout", hasData |-> FALSE, hasAddress |-> FALSE, addr |-> NoAddr, display |-> <<>>],
      [kind |-> "network", hasData |-> FALSE, hasAddress |-> FALSE, addr |-> NoAddr, display |-> <<>>] }

\* no answer recorded
NoGeoResp == [kind |-> "none", hasData |-> FALSE, hasAddress |-> FALSE, addr |-> NoAddr,
              display |-> <<>>]

\* fetchLocationName of variant 1 once the provider has answered with o
locationName1(o, lat, lon) ==
    IF o.kind = "ok" /\ o.hasData /\ o.hasAddress /\ Len(addressParts(o.addr)) > 0
        THEN Join(addressParts(o.addr), ", ")
    ELSE IF o.kind = "ok" /\ o.hasData /\ o.hasAddress /\ Len(o.display) > 0
        THEN Join(SubSeq(o.display, 1, Min(3, Len(o.display))), ",")
    ELSE generateFallbackLocation1(lat, lon)

\* fetchLocationName of variant 2 once the provider has answered with o
\* (reading res.data.address of a missing body throws inside the inner try)
locationName2(o, lat, lon) ==
    IF o.kind = "ok" /\ o.hasData /\ o.hasAddress /\ Len(addressParts(o.addr)) > 0
        THEN Join(addressParts(o.addr), ", ")
    ELSE generateFallbackLocation2(lat, lon)

\* fetchLocationName without the inner catch: a rejected request is thrown on
raises1_uncaught(o) == o.kind # "ok"

\* Does fetchLocationName throw to its caller?  Variant 1: the request and the
\* reading of the response (lines 49-89) are inside the try of line 48, whose
\* catch (line 90) swallows every throw.
raises1(o) == FALSE
\* Variant 2: likewise lines 600-620 inside the try of line 599, `catch {}` on
\* line 621.
raises2(o) == FALSE

\* e.message of a rejected reverse-geocoding request
geoMessage(o) == IF o.kind = "timeout" THEN "timeout of 5000ms exceeded" ELSE "Network Error"

locationName(v, o, lat, lon) ==
    IF v = 1 THEN locationName1(o, lat, lon) ELSE locationName2(o, lat, lon)

\* key of the place-name cache: the template string `${lat},${lon}`
cacheKey(lat, lon) == ToString(lat) \o "," \o ToString(lon)

\* locationCache[key] is truthy
cacheHit(cache, key) == key \in DOMAIN cache /\ cache[key] # ""

\* {...cache, [key]: label}
cachePut(cache, key, label) ==
    [k \in DOMAIN cache \cup {key} |-> IF k = key THEN label ELSE cache[k]]

---------------------------------------------------------------------------
(* Upstream analytic calls *)

Calls == {"ndvi", "peaks", "forecast", "thumb", "analysis"}

\* A Date string names an instant: instant d is the (d % TicksPerDay)-th
\* instant of day d \div TicksPerDay.  Day(n) is midnight of day n.
Day(n) == n * TicksPerDay
\* Date.substring(0,10): the calendar day of the string
dateKey(d) == d \div TicksPerDay
\* new Date(Date): the instant
dateObj(d) == d
\* new Date(Date).getMonth() + 1
monthOf(d) == (((d \div TicksPerDay) \div DaysPerMonth) % 12) + 1

Rec(d, v) == [Date |-> d, NDVI |-> v]

\* /api/ndvi: data.records
NdviResponses == { <<>>, <<Rec(Day(1), 100), Rec(Day(2), 350), Rec(Day(3), 550), Rec(Day(4), 300)>> }
\* /api/peaks: data.peaks, indices into the records (from 0)
PeaksResponses == { <<>>, <<2>> }
\* /api/forecast: data.skipped, data.dates, data.values
ForecastResponses == { [skipped |-> TRUE, dates |-> <<>>, values |-> <<>>],
                       [skipped |-> FALSE, dates |-> <<Day(5), Day(6)>>, values |-> <<320, 340>>] }
\* /api/ndvi-thumb: data.url
ThumbResponses == { "", "thumb.png" }
\* /api/analysis: data.success, data.report
NullAnalysis == [isNull |-> TRUE, success |-> FALSE, report |-> FALSE]
AnalysisResponses == { [isNull |-> FALSE, success |-> TRUE, report |-> TRUE],
                       [isNull |-> FALSE, success |-> FALSE, report |-> FALSE] }

\* e.message of a rejected axios call
ErrMessages == { "Network Error", "Request failed with status code 500" }

Responses(c) ==
    CASE c = "ndvi" -> NdviResponses
      [] c = "peaks" -> PeaksResponses
      [] c = "forecast" -> ForecastResponses
      [] c = "thumb" -> ThumbResponses
      [] c = "analysis" -> AnalysisResponses

\* no response held
NoResp == [ndvi |-> <<>>, peaks |-> <<>>,
           forecast |-> [skipped |-> TRUE, dates |-> <<>>, values |-> <<>>],
           thumb |-> "", analysis |-> NullAnalysis]

NoCalls == [c \in Calls |-> "none"]

(* The texts of setInfo *)
FrontendOnlyInfo1 == "Frontend-only mode: showing public NDVI tiles. Time-series/forecast disabled."
FrontendOnlyInfo2 == "Frontend-only mode: showing public NDVI tiles. Analytics disabled."
ForecastSkippedInfo == "Forecasting skipped: NDVI too low for reliable vegetation forecast."
FailedToLoadInfo == "Failed to load data"
RoiNoteInfo == "NDVI values represent the average vegetation over the selected region."
NoDataInfo == "No NDVI data available for the selected region and date range. This can happen if the area has no vegetation"
NoBloomInfo == "No bloom events exceeded the selected threshold."
NoAnalysisInfo == "No NDVI data available for the selected region and date range."

\* the URL of the public GIBS tiles, and a thumbnail URL with its ts= suffix
GibsUrl == "https://gibs/MODIS_Terra_NDVI_8Day"
withTs(url) == IF url # "" THEN url \o "?ts" ELSE ""

---------------------------------------------------------------------------
(* State after construction *)

NoReq == [t |-> 0, latitude |-> 0, longitude |-> 0, roiSize |-> 0, threshold |-> 0,
          locationCache |-> [k \in {} |-> ""]]

Init ==
    /\ variant \in {1, 2}
    /\ FRONTEND_ONLY \in BOOLEAN
    /\ clock = EpochMs
    /\ latitude = Deg(37) /\ longitude = Deg(-120) /\ roiSize = 50
    /\ latInput = "37" /\ lonInput = "-120" /\ threshold = 200
    /\ ndvi = <<>> /\ peaks = <<>> /\ forecastDates = <<>> /\ forecastValues = <<>>
    /\ thumbUrl = "" /\ analysis = NullAnalysis
    /\ loading = FALSE /\ lastFetchTime = 0 /\ info = Null
    /\ hasResults = FALSE /\ hasRun = FALSE
    /\ placeName = "" /\ locationLoading = FALSE
    /\ locationCache = [k \in {} |-> ""]
    /\ geoCalls = 0
    /\ pc = "idle" /\ req = NoReq /\ calls = NoCalls /\ resp = NoResp
    /\ nStarted = 0 /\ fanLog = <<>> /\ geoKey = "" /\ geoResp = NoGeoResp /\ lastEndTime = 0

---------------------------------------------------------------------------
(* The passing of time and the user's inputs *)

Tick ==
    /\ clock < EpochMs + MaxTicks * TickMs
    /\ clock' = clock + TickMs
    /\ UNCHANGED <<envVars, inputVars, resultVars, flagVars, geoVars, asyncVars, ghostVars>>

\* Number(text) for the texts the model types: nan is Number.isNaN, val the
\* value in degrees.  The empty and the blank text convert to 0.
NumberOf(text) ==
    CASE text = "37"   -> [nan |-> FALSE, val |-> 37]
      [] text = "0"    -> [nan |-> FALSE, val |-> 0]
      [] text = "-120" -> [nan |-> FALSE, val |-> -120]
      [] text = "-90"  -> [nan |-> FALSE, val |-> -90]
      [] text = "91"   -> [nan |-> FALSE, val |-> 91]
      [] text = "-200" -> [nan |-> FALSE, val |-> -200]
      [] text = "1e3"  -> [nan |-> FALSE, val |-> 1000]
      [] text = "180"  -> [nan |-> FALSE, val |-> 180]
      [] text = "90"   -> [nan |-> FALSE, val |-> 90]
      [] text = "-180" -> [nan |-> FALSE, val |-> -180]
      [] text = ""     -> [nan |-> FALSE, val |-> 0]
      [] text = " "    -> [nan |-> FALSE, val |-> 0]
      [] OTHER         -> [nan |-> TRUE, val |-> 0]

\* String(n) of a coordinate (the coordinates typed in the model are whole degrees)
StringOfDeg(k) == ToString(k \div Scale)

\* texts typed into the latitude and longitude boxes
LatInputs == { "37", "0" }
LonInputs == { "-120", "0" }
\* parseFloat of a text that is not a number (an emptied number box gives "").
\* NaN stands outside every range of the model; it is compared through the
\* operators below only.
NaN == -1000000
\* Math.max and Math.min: NaN if an argument is NaN
mathMax(a, b) == IF a = NaN \/ b = NaN THEN NaN ELSE Max(a, b)
mathMin(a, b) == IF a = NaN \/ b = NaN THEN NaN ELSE Min(a, b)
\* a > b of JavaScript: false if an operand is NaN
greater(a, b) == a # NaN /\ b # NaN /\ a > b

\* parseFloat of what is typed into the ROI box (tenths of a degree)
RoiInputs == { 50, 0, -10, NaN }
\* parseFloat of what is typed into the threshold box (thousandths)
ThresholdTyped == { 200, 50, 1500, NaN }

clampLat(n) == Max(Deg(-90), Min(Deg(90), n))
clampLon(n) == Max(Deg(-180), Min(Deg(180), n))

\* onChange of the latitude box with text v
latOnChange(v) ==
    /\ latInput' = v
    /\ latitude' = IF NumberOf(v).nan THEN latitude ELSE clampLat(Deg(NumberOf(v).val))
    /\ UNCHANGED <<lastEndTime, envVars, clock, longitude, roiSize, lonInput, threshold, resultVars,
                   flagVars, geoVars, asyncVars, ghostVars>>

\* onBlur of the latitude box
latOnBlur ==
    /\ LET num  == NumberOf(latInput)
           safe == IF num.nan THEN latitude ELSE clampLat(Deg(num.val))
       IN  /\ latitude' = safe
           /\ latInput' = StringOfDeg(safe)
    /\ UNCHANGED <<lastEndTime, envVars, clock, longitude, roiSize, lonInput, threshold, resultVars,
                   flagVars, geoVars, asyncVars, ghostVars>>

\* onChange of the longitude box with text v
lonOnChange(v) ==
    /\ lonInput' = v
    /\ longitude' = IF NumberOf(v).nan THEN longitude ELSE clampLon(Deg(NumberOf(v).val))
    /\ UNCHANGED <<lastEndTime, envVars, clock, latitude, roiSize, latInput, threshold, resultVars,
                   flagVars, geoVars, asyncVars, ghostVars>>

\* onBlur of the longitude box
lonOnBlur ==
    /\ LET num  == NumberOf(lonInput)
           safe == IF num.nan THEN longitude ELSE clampLon(Deg(num.val))
       IN  /\ longitude' = safe
           /\ lonInput' = StringOfDeg(safe)
    /\ UNCHANGED <<lastEndTime, envVars, clock, latitude, roiSize, latInput, threshold, resultVars,
                   flagVars, geoVars, asyncVars, ghostVars>>

ChangeLatitude == \E v \in LatInputs : latOnChange(v)

ChangeLongitude == \E v \in LonInputs : lonOnChange(v)

\* onChange of the ROI box: line 392, and lines 811-814 with Math.max(0.1, v)
roiOnChange(v) ==
    /\ roiSize' = IF variant = 1 THEN v ELSE mathMax(1, v)
    /\ UNCHANGED <<lastEndTime, envVars, clock, latitude, longitude, latInput, lonInput,
                   threshold, resultVars, flagVars, geoVars, asyncVars, ghostVars>>

\* onChange of the threshold box: line 401, and lines 829-834, which ignore
\* NaN and clamp to [0.1, 1]
thresholdOnChange(v) ==
    /\ threshold' = IF variant = 1 THEN v
                    ELSE IF v = NaN THEN threshold
                    ELSE mathMax(100, mathMin(1000, v))
    /\ UNCHANGED <<lastEndTime, envVars, clock, latitude, longitude, latInput, lonInput,
                   roiSize, resultVars, flagVars, geoVars, asyncVars, ghostVars>>

ChangeRoiSize == \E v \in RoiInputs : roiOnChange(v)

ChangeThreshold == \E v \in ThresholdTyped : thresholdOnChange(v)

---------------------------------------------------------------------------
(* fetchAll, variant 1 (lines 135-187) *)

\* the debounce test of line 137
Debounced(now, last) == now - last < DebounceMs

\* the text of line 183
errorInfo(m) == IF m # "" THEN m ELSE FailedToLoadInfo

\* the request a fetchAll invocation closes over
Request == [t |-> clock, latitude |-> latitude, longitude |-> longitude,
            roiSize |-> roiSize, threshold |-> threshold, locationCache |-> locationCache]

LogEntry(r) == [t |-> r.t, latitude |-> r.latitude, longitude |-> r.longitude,
                roiSize |-> r.roiSize, threshold |-> r.threshold]

\* Click on Run (the button is disabled while loading): the synchronous part
\* of fetchAll up to the reverse-geocoding request.
fetchAll1 ==
    /\ variant = 1
    /\ ~loading
    /\ IF Debounced(clock, lastFetchTime)
       THEN UNCHANGED vars
       ELSE /\ nStarted < MaxRuns
            /\ lastFetchTime' = clock
            /\ loading' = TRUE
            /\ info' = Null
            /\ hasResults' = FALSE
            /\ locationLoading' = TRUE
            /\ geoCalls' = geoCalls + 1
            /\ pc' = "geocode"
            /\ req' = Request
            /\ calls' = NoCalls
            /\ nStarted' = nStarted + 1
            /\ UNCHANGED <<envVars, clock, inputVars, resultVars, hasRun, placeName,
                           locationCache, fanLog, geoKey, geoResp, resp>>

\* The reverse-geocoding request settles; fetchAll goes on to the
\* frontend-only branch or issues the five calls of Promise.all.
GeocodeSettle1 ==
    /\ variant = 1
    /\ pc = "geocode"
    /\ locationLoading' = FALSE                      \* finally of line 99
    /\ \E o \in GeoOutcomes :
         IF raises1(o)
         THEN \* the catch of fetchAll (line 182)
              /\ info' = errorInfo(geoMessage(o))
              /\ loading' = FALSE
              /\ pc' = "idle"
              /\ req' = NoReq
              /\ UNCHANGED <<placeName, geoKey, resultVars, hasResults, calls, fanLog>>
         ELSE /\ placeName' = locationName1(o, req.latitude, req.longitude)
              /\ geoKey' = cacheKey(req.latitude, req.longitude)
              /\ IF FRONTEND_ONLY
                 THEN /\ thumbUrl' = GibsUrl
                      /\ ndvi' = <<>> /\ peaks' = <<>>
                      /\ forecastDates' = <<>> /\ forecastValues' = <<>>
                      /\ info' = FrontendOnlyInfo1
                      /\ hasResults' = TRUE
                      /\ loading' = FALSE
                      /\ pc' = "idle"
                      /\ req' = NoReq
                      /\ UNCHANGED <<analysis, calls, fanLog>>
                 ELSE /\ pc' = "fanout"
                      /\ calls' = [c \in Calls |-> "pending"]
                      /\ fanLog' = Append(fanLog, LogEntry(req))
                      /\ UNCHANGED <<resultVars, info, hasResults, loading, req>>
    /\ UNCHANGED <<envVars, clock, inputVars, lastFetchTime, hasRun, locationCache,
                   geoCalls, nStarted, geoResp, resp>>

\* a fan-out that stops waiting as soon as the NDVI series is there
allFulfilled_ndviOnly(cs) == cs["ndvi"] = "ok"

\* Promise.all over [ndvi, peaks, forecast, thumb, analysis.catch(() => null)]
\* is fulfilled once the first four are fulfilled and the fifth has settled.
allFulfilled(cs) ==
    /\ \A c \in Calls \ {"analysis"} : cs[c] = "ok"
    /\ cs["analysis"] \in {"ok", "fail"}

\* a publication that keeps the stored peaks when the new list is empty
Publish1_keepsPeaks(rs, cs) ==
    /\ ndvi' = rs.ndvi
    /\ peaks' = IF rs.peaks = <<>> THEN peaks ELSE rs.peaks
    /\ IF rs.forecast.skipped
       THEN /\ info' = ForecastSkippedInfo
            /\ forecastDates' = <<>> /\ forecastValues' = <<>>
       ELSE /\ info' = info
            /\ forecastDates' = rs.forecast.dates
            /\ forecastValues' = rs.forecast.values
    /\ thumbUrl' = withTs(rs.thumb)
    /\ analysis' = IF cs["analysis"] = "ok" /\ rs.analysis.success THEN rs.analysis ELSE analysis
    /\ hasResults' = TRUE
    /\ loading' = FALSE
    /\ pc' = "idle"

\* a publication that forgets the finally of line 185
Publish1_noFinally(rs, cs) ==
    /\ ndvi' = rs.ndvi
    /\ peaks' = rs.peaks
    /\ IF rs.forecast.skipped
       THEN /\ info' = ForecastSkippedInfo
            /\ forecastDates' = <<>> /\ forecastValues' = <<>>
       ELSE /\ info' = info
            /\ forecastDates' = rs.forecast.dates
            /\ forecastValues' = rs.forecast.values
    /\ thumbUrl' = withTs(rs.thumb)
    /\ analysis' = IF cs["analysis"] = "ok" /\ rs.analysis.success THEN rs.analysis ELSE analysis
    /\ hasResults' = TRUE
    /\ loading' = loading
    /\ pc' = "idle"

\* lines 166-180 and the finally of line 185
Publish1(rs, cs) ==
    /\ ndvi' = rs.ndvi
    /\ peaks' = rs.peaks
    /\ IF rs.forecast.skipped
       THEN /\ info' = ForecastSkippedInfo
            /\ forecastDates' = <<>> /\ forecastValues' = <<>>
       ELSE /\ info' = info
            /\ forecastDates' = rs.forecast.dates
            /\ forecastValues' = rs.forecast.values
    /\ thumbUrl' = withTs(rs.thumb)
    /\ analysis' = IF cs["analysis"] = "ok" /\ rs.analysis.success THEN rs.analysis ELSE analysis
    /\ hasResults' = TRUE
    /\ loading' = FALSE
    /\ pc' = "idle"

\* One of the five calls is answered while Promise.all is awaited.  (Once
\* Promise.all has rejected, what the calls still in flight answer is dropped:
\* `calls` keeps them "pending", as they were when fetchAll stopped waiting.)
CallResolve1 ==
    /\ variant = 1
    /\ pc = "fanout"
    /\ \E c \in Calls : \E d \in Responses(c) :
         /\ calls[c] = "pending"
         /\ LET cs == [calls EXCEPT ![c] = "ok"]
                rs == [resp EXCEPT ![c] = d]
            IN  /\ calls' = cs
                /\ IF allFulfilled(cs)
                   THEN /\ Publish1(rs, cs)
                        /\ req' = NoReq
                        /\ resp' = NoResp
                   ELSE /\ resp' = rs
                        /\ UNCHANGED <<resultVars, info, hasResults, loading, pc, req>>
    /\ UNCHANGED <<envVars, clock, inputVars, lastFetchTime, hasRun, geoVars, ghostVars>>

\* a rejection that clears the stored results, as the second variant does
CallReject1_clears ==
    /\ variant = 1
    /\ pc = "fanout"
    /\ \E c \in Calls : \E m \in ErrMessages :
         /\ calls[c] = "pending"
         /\ LET cs == [calls EXCEPT ![c] = "fail"]
            IN  /\ calls' = cs
                /\ IF c # "analysis"
                   THEN /\ info' = errorInfo(m)
                        /\ loading' = FALSE
                        /\ pc' = "idle"
                        /\ req' = NoReq
                        /\ resp' = NoResp
                        /\ ndvi' = <<>> /\ peaks' = <<>>
                        /\ UNCHANGED <<forecastDates, forecastValues, thumbUrl, analysis,
                                       hasResults>>
                   ELSE IF allFulfilled(cs)
                   THEN /\ Publish1(resp, cs)
                        /\ req' = NoReq
                        /\ resp' = NoResp
                   ELSE UNCHANGED <<resultVars, info, hasResults, loading, pc, req, resp>>
    /\ UNCHANGED <<envVars, clock, inputVars, lastFetchTime, hasRun, geoVars, ghostVars>>

\* One of the five calls is rejected.  A rejection of one of the first four
\* rejects Promise.all at once (catch of line 182, finally of line 185).
CallReject1 ==
    /\ variant = 1
    /\ pc = "fanout"
    /\ \E c \in Calls : \E m \in ErrMessages :
         /\ calls[c] = "pending"
         /\ LET cs == [calls EXCEPT ![c] = "fail"]
            IN  /\ calls' = cs
                /\ IF c # "analysis"
                   THEN /\ info' = errorInfo(m)
                        /\ loading' = FALSE
                        /\ pc' = "idle"
                        /\ req' = NoReq
                        /\ resp' = NoResp
                        /\ UNCHANGED <<resultVars, hasResults>>
                   ELSE IF allFulfilled(cs)
                   THEN /\ Publish1(resp, cs)
                        /\ req' = NoReq
                        /\ resp' = NoResp
                   ELSE UNCHANGED <<resultVars, info, hasResults, loading, pc, req, resp>>
    /\ UNCHANGED <<envVars, clock, inputVars, lastFetchTime, hasRun, geoVars, ghostVars>>

---------------------------------------------------------------------------
(* fetchAll, variant 2 (lines 645-752) *)

\* Click on Run: the resets of lines 646-653, then fetchLocationName.  On a
\* cache hit fetchLocationName returns at once and fetchAll runs on to the
\* frontend-only branch or to the NDVI request.
fetchAll2 ==
    /\ variant = 2
    /\ ~loading
    /\ nStarted < MaxRuns
    /\ hasRun' = TRUE
    /\ ndvi' = <<>> /\ peaks' = <<>> /\ analysis' = NullAnalysis
    /\ nStarted' = nStarted + 1
    /\ LET key == cacheKey(latitude, longitude)
       IN  IF ~cacheHit(locationCache, key)
           THEN /\ loading' = TRUE /\ hasResults' = FALSE
                /\ thumbUrl' = "" /\ info' = Null
                /\ locationLoading' = TRUE
                /\ geoCalls' = geoCalls + 1
                /\ pc' = "geocode"
                /\ req' = Request
                /\ calls' = NoCalls
                /\ UNCHANGED <<placeName, fanLog, geoKey>>
           ELSE /\ placeName' = locationCache[key]
                /\ geoKey' = key
                /\ UNCHANGED <<locationLoading, geoCalls>>
                /\ IF FRONTEND_ONLY
                   THEN /\ thumbUrl' = GibsUrl
                        /\ info' = FrontendOnlyInfo2
                        /\ hasResults' = TRUE
                        /\ loading' = FALSE
                        /\ pc' = "idle"
                        /\ req' = NoReq
                        /\ calls' = NoCalls
                        /\ UNCHANGED fanLog
                   ELSE /\ thumbUrl' = "" /\ info' = Null
                        /\ hasResults' = FALSE
                        /\ loading' = TRUE
                        /\ pc' = "ndvi"
                        /\ req' = Request
                        /\ calls' = [NoCalls EXCEPT !["ndvi"] = "pending"]
                        /\ fanLog' = Append(fanLog, LogEntry(Request))
    /\ UNCHANGED <<envVars, clock, inputVars, forecastDates, forecastValues,
                   lastFetchTime, locationCache, geoResp, resp>>

\* The reverse-geocoding request settles: the label is cached (into the
\* cache object the invocation closed over) and fetchAll goes on.
GeocodeSettle2 ==
    /\ variant = 2
    /\ pc = "geocode"
    /\ locationLoading' = FALSE                      \* finally of line 625
    /\ \E o \in GeoOutcomes :
         IF raises2(o)
         THEN \* the catch of fetchAll (line 745) logs the error
              /\ loading' = FALSE
              /\ pc' = "idle"
              /\ req' = NoReq
              /\ UNCHANGED <<placeName, locationCache, geoKey, thumbUrl, info, hasResults,
                             calls, fanLog>>
         ELSE /\ placeName' = locationName2(o, req.latitude, req.longitude)
              /\ locationCache' = cachePut(req.locationCache,
                                           cacheKey(req.latitude, req.longitude),
                                           locationName2(o, req.latitude, req.longitude))
              /\ geoKey' = cacheKey(req.latitude, req.longitude)
              /\ IF FRONTEND_ONLY
                 THEN /\ thumbUrl' = GibsUrl
                      /\ info' = FrontendOnlyInfo2
                      /\ hasResults' = TRUE
                      /\ loading' = FALSE
                      /\ pc' = "idle"
                      /\ req' = NoReq
                      /\ UNCHANGED <<calls, fanLog>>
                 ELSE /\ pc' = "ndvi"
                      /\ calls' = [calls EXCEPT !["ndvi"] = "pending"]
                      /\ fanLog' = Append(fanLog, LogEntry(req))
                      /\ UNCHANGED <<thumbUrl, info, hasResults, loading, req>>
    /\ UNCHANGED <<envVars, clock, inputVars, ndvi, peaks, forecastDates, forecastValues,
                   analysis, lastFetchTime, hasRun, geoCalls, nStarted, geoResp, resp>>

\* A rejected NDVI or peaks request: the outer catch logs, finally clears loading.
Abort2(c) ==
    /\ calls' = [calls EXCEPT ![c] = "fail"]
    /\ loading' = FALSE
    /\ pc' = "idle"
    /\ req' = NoReq
    /\ UNCHANGED <<resultVars, info, hasResults>>

\* lines 677-699, then the peaks request of line 702
NdviSettle2 ==
    /\ variant = 2
    /\ pc = "ndvi"
    /\ \/ Abort2("ndvi")
       \/ \E records \in NdviResponses :
            /\ ndvi' = records
            /\ IF Len(records) = 0
               THEN /\ info' = NoDataInfo
                    /\ hasResults' = FALSE
                    /\ loading' = FALSE
                    /\ pc' = "idle"
                    /\ req' = NoReq
                    /\ calls' = [calls EXCEPT !["ndvi"] = "ok"]
               ELSE /\ info' = IF greater(req.roiSize, 50) THEN RoiNoteInfo ELSE info
                    /\ pc' = "peaks"
                    /\ calls' = [calls EXCEPT !["ndvi"] = "ok", !["peaks"] = "pending"]
                    /\ UNCHANGED <<hasResults, loading, req>>
            /\ UNCHANGED <<peaks, forecastDates, forecastValues, thumbUrl, analysis>>
    /\ UNCHANGED <<envVars, clock, inputVars, lastFetchTime, hasRun, geoVars, ghostVars, resp>>

\* lines 702-715, then the thumbnail request of line 719
PeaksSettle2 ==
    /\ variant = 2
    /\ pc = "peaks"
    /\ \/ Abort2("peaks")
       \/ \E detectedPeaks \in PeaksResponses :
            /\ peaks' = detectedPeaks
            /\ info' = IF Len(detectedPeaks) = 0 THEN NoBloomInfo ELSE info
            /\ pc' = "thumb"
            /\ calls' = [calls EXCEPT !["peaks"] = "ok", !["thumb"] = "pending"]
            /\ UNCHANGED <<ndvi, forecastDates, forecastValues, thumbUrl, analysis,
                           hasResults, loading, req>>
    /\ UNCHANGED <<envVars, clock, inputVars, lastFetchTime, hasRun, geoVars, ghostVars, resp>>

\* lines 719-726 (.then sets the URL, .catch swallows), then the analysis
\* request of line 730
ThumbSettle2 ==
    /\ variant = 2
    /\ pc = "thumb"
    /\ \/ /\ calls' = [calls EXCEPT !["thumb"] = "fail", !["analysis"] = "pending"]
          /\ UNCHANGED thumbUrl
       \/ \E url \in ThumbResponses :
            /\ thumbUrl' = IF url # "" THEN withTs(url) ELSE thumbUrl
            /\ calls' = [calls EXCEPT !["thumb"] = "ok", !["analysis"] = "pending"]
    /\ pc' = "analysis"
    /\ UNCHANGED <<envVars, clock, inputVars, ndvi, peaks, forecastDates, forecastValues,
                   analysis, flagVars, geoVars, req, ghostVars, resp>>

\* lines 729-751
AnalysisSettle2 ==
    /\ variant = 2
    /\ pc = "analysis"
    /\ \/ /\ calls' = [calls EXCEPT !["analysis"] = "fail"]
          /\ UNCHANGED <<analysis, info>>
       \/ \E analysisRes \in AnalysisResponses :
            /\ calls' = [calls EXCEPT !["analysis"] = "ok"]
            /\ IF analysisRes.success
               THEN analysis' = analysisRes /\ UNCHANGED info
               ELSE info' = NoAnalysisInfo /\ UNCHANGED analysis
    /\ hasResults' = TRUE
    /\ loading' = FALSE
    /\ pc' = "idle"
    /\ req' = NoReq
    /\ UNCHANGED <<envVars, clock, inputVars, ndvi, peaks, forecastDates, forecastValues,
                   thumbUrl, lastFetchTime, hasRun, geoVars, ghostVars, resp>>

---------------------------------------------------------------------------
\* (lastEndTime is recorded by the timed specification only)
Next ==
    \/ Tick /\ UNCHANGED lastEndTime
    \/ ChangeLatitude
    \/ fetchAll1 /\ UNCHANGED lastEndTime
    \/ GeocodeSettle1 /\ UNCHANGED lastEndTime
    \/ CallResolve1 /\ UNCHANGED lastEndTime
    \/ CallReject1 /\ UNCHANGED lastEndTime
    \/ fetchAll2 /\ UNCHANGED lastEndTime
    \/ GeocodeSettle2 /\ UNCHANGED lastEndTime
    \/ NdviSettle2 /\ UNCHANGED lastEndTime
    \/ PeaksSettle2 /\ UNCHANGED lastEndTime
    \/ ThumbSettle2 /\ UNCHANGED lastEndTime
    \/ AnalysisSettle2 /\ UNCHANGED lastEndTime

Spec == Init /\ [][Next]_vars

---------------------------------------------------------------------------
(* The fallback label as a function of the coordinate: the component is   *)
(* mounted on a coordinate drawn from a grid of samples, and the place    *)
(* name is resolved while the provider is down.                           *)

LatSamples == { Deg(d) : d \in {-90, -60, -45, -35, -20, -10, 0, 12, 25, 37, 50, 55, 70, 90} }
                \cup {-1, 1, 3, Deg(37) + 5}
LonSamples == { Deg(d) : d \in {-180, -155, -125, -120, -80, -65, -50, -30, -18, -10, 0,
                                30, 40, 52, 110, 145, 155, 170, 180} }
                \cup {-1, 1, 3, Deg(-120) - 5}

InitFallback ==
    /\ variant \in {1, 2}
    /\ FRONTEND_ONLY = FALSE
    /\ clock = EpochMs
    /\ latitude \in LatSamples /\ longitude \in LonSamples /\ roiSize = 50
    /\ latInput = "37" /\ lonInput = "-120" /\ threshold = 200
    /\ ndvi = <<>> /\ peaks = <<>> /\ forecastDates = <<>> /\ forecastValues = <<>>
    /\ thumbUrl = "" /\ analysis = NullAnalysis
    /\ loading = FALSE /\ lastFetchTime = 0 /\ info = Null
    /\ hasResults = FALSE /\ hasRun = FALSE
    /\ placeName = "" /\ locationLoading = FALSE
    /\ locationCache = [k \in {} |-> ""]
    /\ geoCalls = 0
    /\ pc = "idle" /\ req = NoReq /\ calls = NoCalls /\ resp = NoResp
    /\ nStarted = 0 /\ fanLog = <<>> /\ geoKey = "" /\ geoResp = NoGeoResp /\ lastEndTime = 0

\* fetchLocationName(latitude, longitude) with a provider that rejects
ResolveWhileDown ==
    /\ \E o \in GeoOutcomes :
         /\ o.kind # "ok"
         /\ placeName' = locationName(variant, o, latitude, longitude)
    /\ geoKey' = cacheKey(latitude, longitude)
    /\ UNCHANGED <<lastEndTime, envVars, clock, inputVars, resultVars, flagVars, locationLoading,
                   locationCache, geoCalls, asyncVars, nStarted, fanLog, geoResp>>

NextFallback == ResolveWhileDown

SpecFallback == InitFallback /\ [][NextFallback]_vars

---------------------------------------------------------------------------
(* Properties *)

\* a build (a fetchAll invocation that passed the debounce) has ended
BuildEnded == nStarted > 0 /\ pc = "idle"

\* the NDVI call of the current build has answered with a non-empty series
NdviArrived ==
    /\ calls["ndvi"] = "ok"
    /\ IF variant = 1 /\ pc = "fanout" THEN Len(resp.ndvi) > 0 ELSE Len(ndvi) > 0

\* the NDVI call of the current build has answered with no records
NdviCameEmpty ==
    /\ calls["ndvi"] = "ok"
    /\ \/ variant = 1 /\ pc = "fanout" /\ Len(resp.ndvi) = 0
       \/ variant = 1 /\ pc = "idle" /\ hasResults /\ Len(ndvi) = 0
       \/ variant = 2 /\ Len(ndvi) = 0

\* C1: two requests with identical parameters issued less than 2000 ms apart
\* cause at most one upstream fan-out (the second is suppressed or reuses the
\* first): no two logged fan-outs with equal parameters are closer than
\* DebounceMs.
C1_AtMostOneFanOut ==
    \A i, j \in DOMAIN fanLog :
        (/\ i < j
         /\ fanLog[i].latitude = fanLog[j].latitude
         /\ fanLog[i].longitude = fanLog[j].longitude
         /\ fanLog[i].roiSize = fanLog[j].roiSize)
        => fanLog[j].t - fanLog[i].t >= DebounceMs

\* C2: when the NDVI series has arrived non-empty and the forecast or the
\* analysis call fails, the build still ends with results from the historical
\* data, and with a note that explains what is missing (not an error text).
C2_DegradesGracefully ==
    [][ (/\ loading /\ ~loading'
         /\ NdviArrived
         /\ (calls'["forecast"] = "fail" \/ calls'["analysis"] = "fail"))
        => (hasResults' /\ info' # Null /\ info' \notin ErrMessages) ]_vars

\* C3: when the NDVI call answers with no records, no other upstream call
\* (peaks, forecast, thumbnail, analysis) is attempted, and the build ends
\* with the no-data status: no results, the no-data explanation.
C3_EmptyNdviStopsBuild ==
    NdviCameEmpty =>
        /\ \A c \in Calls \ {"ndvi"} : calls[c] = "none"
        /\ pc = "idle" => (~hasResults /\ info = NoDataInfo)

\* C4: the info shown to the user is never the raw message of a transport
\* error.
C4_InfoNotRawError == info \notin ErrMessages

\* what a build leaves on the screen: results marked available, an info
\* text, or (variant 2, lines 912-947) the no-data panel
SomethingReturned ==
    \/ hasResults
    \/ info # Null
    \/ variant = 2 /\ hasRun /\ Len(ndvi) = 0

\* C5: every build ends with something returned to the user: a report (full
\* or partial) or an explanation; never with neither.
C5_AlwaysSomethingReturned == BuildEnded => SomethingReturned

\* C6: results are published (hasResults set, loading cleared) only when the
\* NDVI call has resolved and every call the build issued has settled.
C6_PublishedAfterAllSettled ==
    (hasResults /\ ~loading /\ calls["ndvi"] # "none") =>
        /\ calls["ndvi"] = "ok"
        /\ \A c \in Calls : calls[c] # "pending"
        /\ \A c \in Calls : (variant = 1 \/ c # "forecast") => calls[c] \in {"ok", "fail"}

C6_Witness ==
    /\ variant = 1 /\ hasResults /\ ~loading
    /\ calls["ndvi"] = "ok" /\ calls["analysis"] = "fail" /\ Len(ndvi) > 0

\* C7: when the thumbnail call is the only one that fails, the build ends
\* with results published and no error text shown.
C7_ThumbFailureIgnored ==
    (/\ BuildEnded
     /\ calls["thumb"] = "fail"
     /\ \A c \in Calls \ {"thumb"} : (variant = 1 \/ c # "forecast") => calls[c] = "ok")
    => (hasResults /\ info \notin ErrMessages)

\* C8: once fetchLocationName has returned, whatever the provider did, the
\* place name is a non-empty label and locationLoading is false; no outcome
\* makes it throw (a throw would end the build with the place name not set).
C8_LabelAlwaysReturned ==
    (nStarted > 0 /\ pc # "geocode") => (placeName # "" /\ ~locationLoading)

C8_Witness ==
    /\ nStarted > 0 /\ pc # "geocode" /\ ~locationLoading
    /\ geoKey = cacheKey(latitude, longitude)
    /\ placeName = generateFallbackLocation(variant, latitude, longitude)

\* C9: when a build starts on the coordinate whose label the last resolution
\* returned, the label comes from the cache: no request is sent to the
\* provider and the place name stays that label.
C9_CacheHitSkipsProvider ==
    [][ (/\ nStarted' = nStarted + 1
         /\ geoKey # ""
         /\ geoKey = cacheKey(latitude, longitude))
        => (geoCalls' = geoCalls /\ placeName' = placeName) ]_vars

\* two decimals of h hundredths
TwoDecimals(h) ==
    ToString(h \div 100) \o "." \o ToString((h % 100) \div 10) \o ToString(h % 10)

\* the hundredths nearest to k/Scale
Nearest(k) ==
    { h \in (100 * k) \div Scale .. (100 * k) \div Scale + 1 :
        2 * Abs(100 * k - h * Scale) <= Scale }

\* "<Region> (<|lat|>°<N|S>, <|lon|>°<E|W>)" for the coordinate (lat, lon)
WellFormedFallback(label, lat, lon) ==
    \E region \in RegionNames1 :
    \E hLat \in Nearest(Abs(lat)) :
    \E hLon \in Nearest(Abs(lon)) :
        label = region \o " (" \o TwoDecimals(hLat) \o "°"
                       \o (IF lat >= 0 THEN "N" ELSE "S") \o ", "
                       \o TwoDecimals(hLon) \o "°"
                       \o (IF lon >= 0 THEN "E" ELSE "W") \o ")"

\* C10: the label returned when the provider fails is
\* "<Region> (<|lat|>°<N|S>, <|lon|>°<E|W>)": Region one of the macro-region
\* names or Unknown Region, magnitudes with two decimals, N iff lat >= 0,
\* E iff lon >= 0; at (0, 0) it ends with "(0.00°N, 0.00°E)"; resolving the
\* same coordinate again gives the same label.
C10_FallbackLabelFormat ==
    [][ /\ WellFormedFallback(placeName', latitude, longitude)
        /\ (latitude = 0 /\ longitude = 0) =>
               \E region \in RegionNames1 : placeName' = region \o " (0.00°N, 0.00°E)"
        /\ placeName # "" => placeName' = placeName ]_vars

C10_Witness ==
    /\ latitude = 0 /\ longitude = 0
    /\ geoKey = cacheKey(0, 0)
    /\ placeName = "Africa (0.00°N, 0.00°E)"

---------------------------------------------------------------------------
(* The label of a structured address: the provider answers the resolution  *)
(* of the mounted coordinate with an address drawn from all combinations   *)
(* of present and absent fields.                                           *)

AddrSamples ==
    { [f \in DOMAIN NoAddr |-> IF f \in present THEN "<" \o f \o ">" ELSE ""] :
        present \in SUBSET DOMAIN NoAddr }

AddrOutcomes ==
    GeoOutcomes \cup
    { [kind |-> "ok", hasData |-> TRUE, hasAddress |-> TRUE, addr |-> a, display |-> <<>>] :
        a \in AddrSamples }

\* fetchLocationName(latitude, longitude) answered with o
ResolveWith ==
    /\ \E o \in AddrOutcomes :
         /\ placeName' = locationName(variant, o, latitude, longitude)
         /\ geoResp' = o
    /\ geoKey' = cacheKey(latitude, longitude)
    /\ UNCHANGED <<lastEndTime, envVars, clock, inputVars, resultVars, flagVars, locationLoading,
                   locationCache, geoCalls, asyncVars, nStarted, fanLog>>

NextGeocode == ResolveWith

SpecGeocode == Init /\ [][NextGeocode]_vars

\* the first field of fs that the address has, if any
FirstPresent(addr, fs) ==
    LET present == SelectSeq(fs, LAMBDA f : addr[f] # "")
    IN  IF Len(present) = 0 THEN <<>> ELSE <<addr[present[1]]>>

\* the groups of the label, in order
LabelGroups(addr) ==
    FirstPresent(addr, <<"city", "town", "village", "county">>)
    \o FirstPresent(addr, <<"state", "region", "province">>)
    \o FirstPresent(addr, <<"country">>)

\* the groups written one after the other with ", " between them
CommaList(g) ==
    CASE Len(g) = 1 -> g[1]
      [] Len(g) = 2 -> g[1] \o ", " \o g[2]
      [] Len(g) = 3 -> g[1] \o ", " \o g[2] \o ", " \o g[3]
      [] OTHER -> ""

\* C11: when the provider answers with an address that has at least one of
\* the structured fields, the label is the first present of
\* city/town/village/county, then the first present of state/region/province,
\* then country, joined with ", " (absent groups skipped); {city: Paris,
\* country: France} gives "Paris, France".
C11_StructuredLabel ==
    (/\ geoResp.kind = "ok" /\ geoResp.hasData /\ geoResp.hasAddress
     /\ Len(LabelGroups(geoResp.addr)) > 0)
    => /\ placeName = CommaList(LabelGroups(geoResp.addr))
       /\ (geoResp.addr = [NoAddr EXCEPT !.city = "Paris", !.country = "France"])
             => placeName = "Paris, France"

C11_Witness ==
    /\ geoResp.kind = "ok"
    /\ geoResp.addr = [NoAddr EXCEPT !.city = "Paris", !.country = "France"]
    /\ placeName = "Paris, France"

---------------------------------------------------------------------------
(* Values derived from the state on every render (useMemo).  NDVI values   *)
(* are integers in thousandths; an optional field is <<>> or <<value>>.    *)

RECURSIVE SortAsc(_)
\* the elements of a finite set of integers in ascending order
SortAsc(S) ==
    IF S = {} THEN <<>>
    ELSE LET m == CHOOSE x \in S : \A y \in S : x <= y
         IN  <<m>> \o SortAsc(S \ {m})

\* the largest element of a non-empty finite set of integers
MaxOf(S) == CHOOSE x \in S : \A y \in S : y <= x

\* forecastValues[i], undefined beyond the end
valueAt(fv, i) == IF i <= Len(fv) THEN <<fv[i]>> ELSE <<>>

\* a fusion that keeps every forecast point, whatever its date
combinedSeries1_noWindow(nd, fd, fv, today) ==
    LET kept == 1 .. Len(fd)
        histIdx(k) == { i \in 1 .. Len(nd) : dateKey(nd[i].Date) = k }
        fcIdx(k) == { i \in kept : dateKey(fd[i]) = k }
        keys == { dateKey(nd[i].Date) : i \in 1 .. Len(nd) } \cup { dateKey(fd[i]) : i \in kept }
        entry(k) == [date |-> k,
                     historical |-> IF histIdx(k) = {} THEN <<>>
                                    ELSE <<nd[MaxOf(histIdx(k))].NDVI>>,
                     forecast |-> IF fcIdx(k) = {} THEN <<>> ELSE valueAt(fv, MaxOf(fcIdx(k)))]
        order == SortAsc(keys)
    IN  [i \in 1 .. Len(order) |-> entry(order[i])]

\* a fusion that appends the windowed forecast to the history without merging
\* records of one date and without sorting
combinedSeries1_concat(nd, fd, fv, today) ==
    LET lastHistDate == IF Len(nd) > 0 THEN dateObj(nd[Len(nd)].Date) ELSE dateObj(Day(today))
        idx == SelectSeq([i \in 1 .. Len(fd) |-> i], LAMBDA i : dateObj(fd[i]) > lastHistDate)
    IN  [i \in 1 .. Len(nd) |->
            [date |-> dateKey(nd[i].Date), historical |-> <<nd[i].NDVI>>, forecast |-> <<>>]]
        \o [j \in 1 .. Len(idx) |->
            [date |-> dateKey(fd[idx[j]]), historical |-> <<>>, forecast |-> valueAt(fv, idx[j])]]

\* a fusion whose comparator is the wrong way round
combinedSeries1_desc(nd, fd, fv, today) ==
    LET lastHistDate == IF Len(nd) > 0 THEN dateObj(nd[Len(nd)].Date) ELSE dateObj(Day(today))
        kept == { i \in 1 .. Len(fd) : dateObj(fd[i]) > lastHistDate }
        histIdx(k) == { i \in 1 .. Len(nd) : dateKey(nd[i].Date) = k }
        fcIdx(k) == { i \in kept : dateKey(fd[i]) = k }
        keys == { dateKey(nd[i].Date) : i \in 1 .. Len(nd) } \cup { dateKey(fd[i]) : i \in kept }
        entry(k) == [date |-> k,
                     historical |-> IF histIdx(k) = {} THEN <<>>
                                    ELSE <<nd[MaxOf(histIdx(k))].NDVI>>,
                     forecast |-> IF fcIdx(k) = {} THEN <<>> ELSE valueAt(fv, MaxOf(fcIdx(k)))]
        order == SortAsc(keys)
    IN  [i \in 1 .. Len(order) |-> entry(order[Len(order) + 1 - i])]

\* combinedSeries of variant 1 (lines 189-201): the history and the forecast
\* points after the last historical instant, one record per calendar day (a
\* later write to a day's field replaces the earlier one), sorted by day.
\* With no history the forecast is compared with the current instant.
combinedSeries1(nd, fd, fv, today) ==
    LET lastHistDate == IF Len(nd) > 0 THEN dateObj(nd[Len(nd)].Date) ELSE dateObj(Day(today))
        kept == { i \in 1 .. Len(fd) : dateObj(fd[i]) > lastHistDate }
        histIdx(k) == { i \in 1 .. Len(nd) : dateKey(nd[i].Date) = k }
        fcIdx(k) == { i \in kept : dateKey(fd[i]) = k }
        keys == { dateKey(nd[i].Date) : i \in 1 .. Len(nd) } \cup { dateKey(fd[i]) : i \in kept }
        entry(k) == [date |-> k,
                     historical |-> IF histIdx(k) = {} THEN <<>>
                                    ELSE <<nd[MaxOf(histIdx(k))].NDVI>>,
                     forecast |-> IF fcIdx(k) = {} THEN <<>> ELSE valueAt(fv, MaxOf(fcIdx(k)))]
        order == SortAsc(keys)
    IN  [i \in 1 .. Len(order) |-> entry(order[i])]

\* combinedSeries of variant 2 (line 755): the history, record by record
combinedSeries2(nd) ==
    [i \in 1 .. Len(nd) |->
        [date |-> dateKey(nd[i].Date), historical |-> <<nd[i].NDVI>>, forecast |-> <<>>]]

combinedSeries ==
    IF variant = 1 THEN combinedSeries1(ndvi, forecastDates, forecastValues, Today)
    ELSE combinedSeries2(ndvi)

\* peak points read one record too far
peakPoints_shifted(nd, pk) ==
    IF Len(nd) = 0 \/ Len(pk) = 0 THEN <<>>
    ELSE LET found == SelectSeq(pk, LAMBDA idx : idx + 2 \in 1 .. Len(nd))
         IN  [i \in 1 .. Len(found) |->
                 [date |-> dateKey(nd[found[i] + 2].Date), peak |-> nd[found[i] + 2].NDVI]]

\* peakPoints (lines 203-211, 757-760): the records at the peak indices (the
\* indices count from 0), indices without a record skipped
peakPoints(nd, pk) ==
    IF Len(nd) = 0 \/ Len(pk) = 0 THEN <<>>
    ELSE LET found == SelectSeq(pk, LAMBDA idx : idx + 1 \in 1 .. Len(nd))
         IN  [i \in 1 .. Len(found) |->
                 [date |-> dateKey(nd[found[i] + 1].Date), peak |-> nd[found[i] + 1].NDVI]]

\* Number.prototype.toFixed(2) of v thousandths: the nearest hundredth.  (A
\* value halfway between two hundredths goes up or down with its binary
\* representation; the series of the model hold none where this is applied.)
fixed2(v) ==
    LET h == (Abs(v) + 5) \div 10
    IN  (IF v < 0 THEN "-" ELSE "") \o ToString(h \div 100) \o "." \o Pad2(h % 100)

\* the peak items of the report (lines 265-272): the first three peaks
peakItems(nd, pk) ==
    LET top == SubSeq(pk, 1, Min(3, Len(pk)))
        found == SelectSeq(top, LAMBDA idx : idx + 1 \in 1 .. Len(nd))
    IN  [i \in 1 .. Len(found) |->
            [date |-> dateKey(nd[found[i] + 1].Date), value |-> fixed2(nd[found[i] + 1].NDVI)]]

\* The bloom detector of the server (/api/peaks), which answers with the
\* indices (from 0) of the bloom events of the series at the threshold.
detect(values, t) ==
    SelectSeq([i \in 1 .. Len(values) |-> i - 1],
              LAMBDA i : /\ i >= 1 /\ i <= Len(values) - 2
                         /\ values[i + 1] >= t
                         /\ values[i + 1] > values[i]
                         /\ values[i + 1] >= values[i + 2])

\* bands whose lower bounds are tested lowest first
vegType_lowestFirst(v) ==
    IF v < 100 THEN "Water/Non-vegetated"
    ELSE IF v >= 100 THEN "Bare/Sparse"
    ELSE IF v >= 200 THEN "Sparse Vegetation"
    ELSE IF v >= 400 THEN "Healthy Vegetation"
    ELSE IF v >= 600 THEN "Dense Vegetation"
    ELSE "Very Dense Vegetation"

\* vegType (lines 223-230)
vegType(v) ==
    IF v >= 700 THEN "Very Dense Vegetation"
    ELSE IF v >= 600 THEN "Dense Vegetation"
    ELSE IF v >= 400 THEN "Healthy Vegetation"
    ELSE IF v >= 200 THEN "Sparse Vegetation"
    ELSE IF v >= 100 THEN "Bare/Sparse"
    ELSE "Water/Non-vegetated"

\* the colour set by the roiColor effect (lines 284-289, 766-771)
roiColorOf(v) ==
    IF v >= 700 THEN "#006400"
    ELSE IF v >= 600 THEN "#228B22"
    ELSE IF v >= 400 THEN "#32CD32"
    ELSE IF v >= 200 THEN "#ADFF2F"
    ELSE IF v >= 100 THEN "#FFFF00"
    ELSE "#00BFFF"

\* health_status (line 234)
healthStatus(v) == IF v >= 400 THEN "Growing" ELSE IF v >= 200 THEN "Moderate" ELSE "Poor"

WindowSize == 60

\* a window that is the whole series
trendWindow_whole(values) == values

\* values.slice(-windowSize) (lines 239-240)
trendWindow(values) ==
    SubSeq(values, Len(values) - Min(WindowSize, Len(values)) + 1, Len(values))

\* delta (line 241)
windowDelta(values) == trendWindow(values)[Len(trendWindow(values))] - trendWindow(values)[1]

\* trendLabel (line 242); 0.02 is 20 thousandths
trendLabel(delta) ==
    IF Abs(delta) < 20 THEN "Stable" ELSE IF delta > 0 THEN "Improving" ELSE "Declining"

UnsuitableNote == "Area appears to be water or bare land - not suitable for vegetation monitoring"
SparseNote == "Very sparse vegetation detected - consider irrigation or soil improvement"
DroughtNote == "Monitor for signs of drought stress"
MaintainNote == "Moderate vegetation health - maintain regular monitoring"
DeclineNote == "Declining trend detected - investigate potential stressors"
ContinueNote == "Healthy vegetation - continue current management practices"
FavorableNote == "Positive growth trend - conditions are favorable"
ExcellentNote == "Excellent vegetation health - peak growing conditions"
HarvestNote == "Monitor for optimal harvest timing if applicable"
WinterNote == "Winter season - expect lower NDVI values due to dormancy"
SummerNote == "Summer season - monitor for heat stress and water availability"

\* recommendations whose seasonal note comes first
getRecommendations_seasonFirst(v, trend, month) ==
    (IF month \in {12, 1, 2} THEN <<WinterNote>>
     ELSE IF month \in {6, 7, 8} THEN <<SummerNote>>
     ELSE <<>>)
    \o (IF v < 100 THEN <<UnsuitableNote>>
        ELSE IF v < 200 THEN <<SparseNote, DroughtNote>>
        ELSE IF v < 400 THEN <<MaintainNote>> \o (IF trend < -10 THEN <<DeclineNote>> ELSE <<>>)
        ELSE IF v < 600 THEN <<ContinueNote>> \o (IF trend > 10 THEN <<FavorableNote>> ELSE <<>>)
        ELSE <<ExcellentNote, HarvestNote>>)

\* getRecommendations (lines 292-322); 0.01 is 10 thousandths
getRecommendations(v, trend, month) ==
    (IF v < 100 THEN <<UnsuitableNote>>
     ELSE IF v < 200 THEN <<SparseNote, DroughtNote>>
     ELSE IF v < 400 THEN <<MaintainNote>> \o (IF trend < -10 THEN <<DeclineNote>> ELSE <<>>)
     ELSE IF v < 600 THEN <<ContinueNote>> \o (IF trend > 10 THEN <<FavorableNote>> ELSE <<>>)
     ELSE <<ExcellentNote, HarvestNote>>)
    \o (IF month \in {12, 1, 2} THEN <<WinterNote>>
        ELSE IF month \in {6, 7, 8} THEN <<SummerNote>>
        ELSE <<>>)

NullSummary == [isNull |-> TRUE]

\* summary of variant 1 (lines 213-277), without its mean and its forecast part
summary1(nd, pk) ==
    IF Len(nd) = 0 THEN NullSummary
    ELSE LET values == [i \in 1 .. Len(nd) |-> nd[i].NDVI]
             latestNdvi == values[Len(values)]
             delta == windowDelta(values)
         IN  [isNull |-> FALSE,
              vegetation_type |-> vegType(latestNdvi),
              health_status |-> healthStatus(latestNdvi),
              current_ndvi |-> fixed2(latestNdvi),
              trend_direction |-> trendLabel(delta),
              delta |-> delta,
              peakCount |-> Len(pk),
              peakItems |-> peakItems(nd, pk),
              recommendations |-> getRecommendations(latestNdvi, delta, monthOf(nd[Len(nd)].Date))]

summary == summary1(ndvi, peaks)

\* roiColor once the effect of lines 281-290 (766-771) has run; 'blue' at first
roiColor ==
    IF ~hasResults \/ Len(ndvi) = 0 THEN "blue" ELSE roiColorOf(ndvi[Len(ndvi)].NDVI)

---------------------------------------------------------------------------
(* The derived values over the answers the server can give: a build with   *)
(* a threshold ends and its series, peaks and forecast are stored.         *)

\* instants of historical records: days 1 to 3, some not at midnight
HistInstants == { Day(1), Day(1) + 1, Day(2), Day(2) + 1, Day(3) }
\* instants of forecast points: around the history's end, and after today
ForecastInstants == { Day(1) + 1, Day(2), Day(2) + 1, Day(3), Day(4), Day(Today) + 1 }

\* a series is strictly increasing by calendar day
IncreasingDays(nd) ==
    \A i \in 1 .. Len(nd) - 1 : dateKey(nd[i].Date) < dateKey(nd[i + 1].Date)

\* /api/ndvi records of up to three days
FuseHistories ==
    { nd \in {<<>>}
          \cup { <<Rec(a, 100 + a)>> : a \in HistInstants }
          \cup { <<Rec(a, 100 + a), Rec(b, 200 + b)>> : a \in HistInstants, b \in HistInstants }
          \cup { <<Rec(a, 100 + a), Rec(b, 200 + b), Rec(c, 300 + c)>> :
                     a \in HistInstants, b \in HistInstants, c \in {Day(3)} } :
      IncreasingDays(nd) }

\* /api/forecast answers of up to two points, in any order, a day twice included
FuseForecasts ==
    {[dates |-> <<>>, values |-> <<>>]}
    \cup { [dates |-> <<a>>, values |-> <<610>>] : a \in ForecastInstants }
    \cup { [dates |-> <<a, b>>, values |-> <<610, 620>>] : a \in ForecastInstants, b \in ForecastInstants }

FuseSamples ==
    { [nd |-> h, fd |-> f.dates, fv |-> f.values, t |-> 200] : h \in FuseHistories, f \in FuseForecasts }

\* /api/ndvi series for the bloom detector: every series of up to four values
\* of the worked example, and zigzags with up to four peaks
BloomValues == { 100, 350, 550, 300 }
BloomSeries ==
    {<<>>}
    \cup { <<a>> : a \in BloomValues }
    \cup { <<a, b>> : a \in BloomValues, b \in BloomValues }
    \cup { <<a, b, c>> : a \in BloomValues, b \in BloomValues, c \in BloomValues }
    \cup { <<a, b, c, d>> : a \in BloomValues, b \in BloomValues, c \in BloomValues, d \in BloomValues }
    \cup { [i \in 1 .. n |-> IF i % 2 = 1 THEN 100 ELSE 300 + i] : n \in 5 .. 9 }

\* thresholds of the slider, in thousandths
ThresholdInputs == { 200, 400 }

BloomSamples ==
    { [nd |-> [i \in 1 .. Len(vs) |-> Rec(Day(i), vs[i])], fd |-> <<>>, fv |-> <<>>, t |-> t] :
          vs \in BloomSeries, t \in ThresholdInputs }

\* latest values around every band bound, deltas around both trend bounds,
\* lengths around the window size, every month
LatestValues == { -50, 0, 99, 100, 199, 200, 399, 400, 599, 600, 699, 700, 1000 }
Deltas == { -30, -20, -19, -12, -11, -10, 0, 10, 11, 12, 19, 20, 30 }
SeriesLengths == { 1, 2, 3, WindowSize, WindowSize + 1, WindowSize + 2 }

\* a day of month m late enough for the longest series to end on
LastDay(m) == 12 * DaysPerMonth + (m - 1) * DaysPerMonth + 3

\* a series of n days ending in month m with v, whose window of the last
\* min(WindowSize, n) values starts with v - delta; the values before the
\* window are far from the window's first one
SeriesOf(n, v, delta, m) ==
    LET start == n - Min(WindowSize, n) + 1
    IN  [i \in 1 .. n |->
            Rec(Day(LastDay(m) - (n - i)),
                IF i = n THEN v
                ELSE IF i = start THEN v - delta
                ELSE IF i < start THEN v - delta + 500
                ELSE v + 70)]

SummarySamples ==
    { [nd |-> SeriesOf(n, v, IF n = 1 THEN 0 ELSE d, m), fd |-> <<>>, fv |-> <<>>, t |-> 200] :
          n \in SeriesLengths, v \in LatestValues, d \in Deltas, m \in 1 .. 12 }

DataSamples == FuseSamples \cup BloomSamples \cup SummarySamples

valuesOf(nd) == [i \in 1 .. Len(nd) |-> nd[i].NDVI]

\* setNdvi, setPeaks, setForecastDates, setForecastValues at the end of a build
\* (lines 166-180, 679-744); variant 2 asks for no forecast.  The derived
\* values depend on the stored answers alone, so the first build is followed.
ReceiveData ==
    /\ ~hasResults
    /\ \E d \in DataSamples :
         /\ threshold' = d.t
         /\ ndvi' = d.nd
         /\ peaks' = detect(valuesOf(d.nd), d.t)
         /\ forecastDates' = IF variant = 1 THEN d.fd ELSE <<>>
         /\ forecastValues' = IF variant = 1 THEN d.fv ELSE <<>>
    /\ hasResults' = TRUE
    /\ UNCHANGED <<lastEndTime, envVars, clock, latitude, longitude, roiSize, latInput, lonInput,
                   thumbUrl, analysis, loading, lastFetchTime, info, hasRun,
                   geoVars, asyncVars, ghostVars>>

NextDerive == ReceiveData

SpecDerive == Init /\ [][NextDerive]_vars

\* the instant of the last historical observation
lastObserved == dateObj(ndvi[Len(ndvi)].Date)

\* C12: with a history, a record of the fused series carries a forecast value
\* only if that value belongs to a forecast point of its day dated strictly
\* after the last historical observation (points at or before it are
\* dropped), and every forecast point dated after it is kept: its day has a
\* record with a forecast value.
C12_ForecastWindowed ==
    LET fused == combinedSeries
    IN
        Len(ndvi) > 0 =>
            /\ \A i \in 1 .. Len(fused) :
                  fused[i].forecast # <<>> =>
                      \E j \in 1 .. Len(forecastDates) :
                          /\ dateObj(forecastDates[j]) > lastObserved
                          /\ dateKey(forecastDates[j]) = fused[i].date
                          /\ fused[i].forecast = <<forecastValues[j]>>
            /\ \A j \in 1 .. Len(forecastDates) :
                  dateObj(forecastDates[j]) > lastObserved =>
                      \E i \in 1 .. Len(fused) :
                          /\ fused[i].date = dateKey(forecastDates[j])
                          /\ fused[i].forecast # <<>>

\* a forecast with one point at or before the last observation, which is
\* dropped, and one after it, which is kept
C12_Witness ==
    LET fused == combinedSeries
    IN
        /\ variant = 1 /\ Len(ndvi) > 0
        /\ \E j \in 1 .. Len(forecastDates) : dateObj(forecastDates[j]) <= lastObserved
        /\ \E j \in 1 .. Len(forecastDates) : dateObj(forecastDates[j]) > lastObserved
        /\ \E i \in 1 .. Len(fused) : fused[i].forecast # <<>>
        /\ \E i \in 1 .. Len(fused) : fused[i].forecast = <<>>

\* C13: the fused series is strictly increasing by date: sorted ascending,
\* no date in two records.
C13_FusedStrictlyIncreasing ==
    LET fused == combinedSeries
    IN
        \A i \in 1 .. Len(fused) - 1 :
            fused[i].date < fused[i + 1].date

\* a forecast out of order whose first point falls on the day of the last
\* observation, after it, fused with a history of two days or more
C13_Witness ==
    LET fused == combinedSeries
    IN
        /\ variant = 1 /\ Len(ndvi) >= 2 /\ Len(forecastDates) = 2
        /\ dateObj(forecastDates[2]) > lastObserved
        /\ dateObj(forecastDates[1]) > dateObj(forecastDates[2])
        /\ dateKey(forecastDates[2]) = dateKey(ndvi[Len(ndvi)].Date)
        /\ Len(fused) = Len(ndvi) + 1

\* C14: with an empty forecast the fused series is the historical series:
\* the same dates in the same order, the same historical values, no forecast
\* field.
C14_EmptyForecastIsHistory ==
    LET fused == combinedSeries
    IN
        (IncreasingDays(ndvi) /\ forecastDates = <<>>) =>
            /\ Len(fused) = Len(ndvi)
            /\ \A i \in 1 .. Len(ndvi) :
                  /\ fused[i].date = dateKey(ndvi[i].Date)
                  /\ fused[i].historical = <<ndvi[i].NDVI>>
                  /\ fused[i].forecast = <<>>

\* a history of three days fused with an empty forecast, in variant 1
C14_Witness ==
    LET fused == combinedSeries
    IN
        /\ variant = 1 /\ hasResults /\ Len(ndvi) = 3 /\ forecastDates = <<>>
        /\ Len(fused) = 3

\* index i (from 0) is a bloom event of the series at threshold t
BloomAt(values, t, i) ==
    /\ 1 <= i /\ i <= Len(values) - 2
    /\ values[i + 1] >= t
    /\ values[i + 1] > values[i]
    /\ values[i + 1] >= values[i + 2]

\* C15: the bloom events of the stored series at the threshold are exactly
\* the indices i with 1 <= i <= len-2, s[i] >= t, s[i] > s[i-1] and
\* s[i] >= s[i+1], in ascending order; a series shorter than 3 has none; for
\* [0.1, 0.35, 0.55, 0.3] at 0.2 the only event is index 2 (0.55); every
\* event shown (chart points, and the first three in the report) is the
\* date and value of such an index.
C15_BloomEvents ==
    LET values == valuesOf(ndvi)
        shown == peakPoints(ndvi, peaks)
        items == peakItems(ndvi, peaks)
    IN  /\ \A k \in 1 .. Len(peaks) : BloomAt(values, threshold, peaks[k])
        /\ \A i \in 0 .. Len(values) - 1 :
              BloomAt(values, threshold, i) => \E k \in 1 .. Len(peaks) : peaks[k] = i
        /\ \A k \in 1 .. Len(peaks) - 1 : peaks[k] < peaks[k + 1]
        /\ Len(values) < 3 => peaks = <<>>
        /\ (values = <<100, 350, 550, 300>> /\ threshold = 200) =>
              /\ peaks = <<2>>
              /\ shown = <<[date |-> dateKey(ndvi[3].Date), peak |-> 550]>>
        /\ Len(shown) = Len(peaks)
        /\ \A k \in 1 .. Len(shown) :
              /\ shown[k].date = dateKey(ndvi[peaks[k] + 1].Date)
              /\ shown[k].peak = values[peaks[k] + 1]
        /\ variant = 1 =>
              /\ Len(items) = Min(3, Len(peaks))
              /\ \A k \in 1 .. Len(items) :
                    /\ items[k].date = dateKey(ndvi[peaks[k] + 1].Date)
                    /\ items[k].value = fixed2(values[peaks[k] + 1])

\* the worked example, its one event shown, in variant 1
C15_Witness ==
    /\ variant = 1 /\ hasResults /\ threshold = 200
    /\ valuesOf(ndvi) = <<100, 350, 550, 300>>
    /\ peaks = <<2>>
    /\ peakPoints(ndvi, peaks) = <<[date |-> 3, peak |-> 550]>>
    /\ peakItems(ndvi, peaks) = <<[date |-> 3, value |-> "0.55"]>>

\* C16: the trend of a non-empty series is that of delta = last - first of
\* its last min(60, len) points: Stable iff |delta| < 0.02, Improving iff
\* delta >= 0.02, Declining iff delta <= -0.02; a constant series and a
\* single point are Stable.
C16_TrendOnWindow ==
    LET report == summary
    IN
        (variant = 1 /\ Len(ndvi) > 0) =>
            LET values == valuesOf(ndvi)
                n == IF Len(values) < 60 THEN Len(values) ELSE 60
                d == values[Len(values)] - values[Len(values) - n + 1]
            IN  /\ report.delta = d
                /\ report.trend_direction \in {"Stable", "Improving", "Declining"}
                /\ report.trend_direction = "Stable" <=> (d > -20 /\ d < 20)
                /\ report.trend_direction = "Improving" <=> d >= 20
                /\ report.trend_direction = "Declining" <=> d <= -20
                /\ (\A i \in 1 .. Len(values) : values[i] = values[1]) =>
                       report.trend_direction = "Stable"
                /\ Len(values) = 1 => report.trend_direction = "Stable"

\* a series longer than the window whose window rises by 0.02 while the whole
\* series falls
C16_Witness ==
    LET report == summary
    IN
        /\ variant = 1 /\ Len(ndvi) = 61
        /\ ndvi[61].NDVI - ndvi[2].NDVI = 20
        /\ ndvi[61].NDVI - ndvi[1].NDVI < 0
        /\ report.trend_direction = "Improving"

\* the lower bounds of the bands, highest first
BandBounds == <<700, 600, 400, 200, 100>>
BandLabels == <<"Very Dense Vegetation", "Dense Vegetation", "Healthy Vegetation",
                "Sparse Vegetation", "Bare/Sparse">>
BandColors == <<"#006400", "#228B22", "#32CD32", "#ADFF2F", "#FFFF00">>

\* the bands whose lower bound is at most v
BandsUpTo(v) == { b \in 1 .. Len(BandBounds) : BandBounds[b] <= v }

\* the band of the highest lower bound at most v, 0 if there is none
BandOf(v) ==
    IF BandsUpTo(v) = {} THEN 0
    ELSE CHOOSE b \in BandsUpTo(v) : \A c \in BandsUpTo(v) : BandBounds[c] <= BandBounds[b]

\* C17: the vegetation type of the latest value v is the label of the
\* highest lower bound <= v (0.7, 0.6, 0.4, 0.2, 0.1), Water/Non-vegetated
\* below all of them, and the region's colour is the colour of the same band.
C17_VegetationBand ==
    LET report == summary
    IN
        (hasResults /\ Len(ndvi) > 0) =>
            LET v == ndvi[Len(ndvi)].NDVI
            IN  /\ variant = 1 =>
                      report.vegetation_type =
                          IF BandOf(v) = 0 THEN "Water/Non-vegetated" ELSE BandLabels[BandOf(v)]
                /\ roiColor = IF BandOf(v) = 0 THEN "#00BFFF" ELSE BandColors[BandOf(v)]

\* a latest value on a band's lower bound
C17_Witness ==
    LET report == summary
    IN
        /\ variant = 1 /\ hasResults /\ Len(ndvi) > 0
        /\ ndvi[Len(ndvi)].NDVI = 600
        /\ report.vegetation_type = "Dense Vegetation"
        /\ roiColor = "#228B22"

HealthTable == <<"Peak Health", "Thriving", "Growing", "Moderate", "Stressed">>

\* C18: the health status of the latest value v is the one of its band:
\* Peak Health from 0.7, Thriving from 0.6, Growing from 0.4, Moderate from
\* 0.2, Stressed from 0.1, Poor below.
C18_HealthStatusTable ==
    LET report == summary
    IN
        (variant = 1 /\ Len(ndvi) > 0) =>
            LET v == ndvi[Len(ndvi)].NDVI
            IN  report.health_status = IF BandOf(v) = 0 THEN "Poor" ELSE HealthTable[BandOf(v)]

BandNotes == <<UnsuitableNote, SparseNote, DroughtNote, MaintainNote, DeclineNote,
               ContinueNote, FavorableNote, ExcellentNote, HarvestNote>>
SeasonNotes == <<WinterNote, SummerNote>>

\* the note appears in the list
Has(list, note) == \E k \in 1 .. Len(list) : list[k] = note

\* the position of a note in the order band notes, then seasonal notes
Rank(note) == CHOOSE k \in 1 .. 11 : (BandNotes \o SeasonNotes)[k] = note

\* C19: the recommendations for (ndvi, windowDelta, month) are the notes of
\* exactly one band (<0.1 unsuitable; [0.1,0.2) two notes; [0.2,0.4)
\* maintenance, and decline iff windowDelta < -0.01; [0.4,0.6) continue, and
\* favorable iff windowDelta > 0.01; >= 0.6 two notes), then one seasonal
\* note as the last element iff the month is in {12,1,2} or {6,7,8}.
C19_Recommendations ==
    LET report == summary
    IN
        (variant = 1 /\ Len(ndvi) > 0) =>
            LET v == ndvi[Len(ndvi)].NDVI
                d == report.delta
                m == monthOf(ndvi[Len(ndvi)].Date)
                r == report.recommendations
            IN  /\ \A k \in 1 .. Len(r) : Has(BandNotes \o SeasonNotes, r[k])
                /\ \A k \in 1 .. Len(r) - 1 : Rank(r[k]) < Rank(r[k + 1])
                /\ Has(r, UnsuitableNote) <=> v < 100
                /\ Has(r, SparseNote) <=> (v >= 100 /\ v < 200)
                /\ Has(r, DroughtNote) <=> (v >= 100 /\ v < 200)
                /\ Has(r, MaintainNote) <=> (v >= 200 /\ v < 400)
                /\ Has(r, DeclineNote) <=> (v >= 200 /\ v < 400 /\ d < -10)
                /\ Has(r, ContinueNote) <=> (v >= 400 /\ v < 600)
                /\ Has(r, FavorableNote) <=> (v >= 400 /\ v < 600 /\ d > 10)
                /\ Has(r, ExcellentNote) <=> v >= 600
                /\ Has(r, HarvestNote) <=> v >= 600
                /\ Has(r, WinterNote) <=> m \in {12, 1, 2}
                /\ Has(r, SummerNote) <=> m \in {6, 7, 8}
                /\ (m \in {12, 1, 2, 6, 7, 8}) => Has(SeasonNotes, r[Len(r)])

\* a moderate value with a declining window in July: three notes, the
\* seasonal one last
C19_Witness ==
    LET report == summary
    IN
        /\ variant = 1 /\ Len(ndvi) > 1
        /\ ndvi[Len(ndvi)].NDVI = 399
        /\ report.delta = -20
        /\ monthOf(ndvi[Len(ndvi)].Date) = 7
        /\ report.recommendations = <<MaintainNote, DeclineNote, SummerNote>>

\* C29: the recommendations hold the note "Declining trend detected" only
\* if the reported trend direction is Declining, and the note "Positive
\* growth trend" only if it is Improving.
C29_NotesAgreeWithTrend ==
    LET report == summary
    IN
        (variant = 1 /\ Len(ndvi) > 0) =>
            /\ Has(report.recommendations, DeclineNote) => report.trend_direction = "Declining"
            /\ Has(report.recommendations, FavorableNote) => report.trend_direction = "Improving"

---------------------------------------------------------------------------
(* The latitude and longitude boxes on their own: any text is typed, and   *)
(* the boxes lose the focus, in any order.                                 *)

\* texts typed into a coordinate box: numbers in and out of range, the empty
\* and the blank text, and texts that are no number
TypedTexts == { "37", "0", "-120", "-90", "91", "-200", "1e3", "180", "90", "-180",
                "", " ", "abc", "-" }

TypeLatitude == \E v \in TypedTexts : latOnChange(v)
BlurLatitude == latOnBlur
TypeLongitude == \E v \in TypedTexts : lonOnChange(v)
BlurLongitude == lonOnBlur

NextInputs == TypeLatitude \/ BlurLatitude \/ TypeLongitude \/ BlurLongitude

SpecInputs == Init /\ [][NextInputs]_vars

\* the texts among TypedTexts that spell a number
NumericTexts == { "37", "0", "-120", "-90", "91", "-200", "1e3", "180", "90", "-180" }

CoordinatesInRange ==
    /\ latitude >= Deg(-90) /\ latitude <= Deg(90)
    /\ longitude >= Deg(-180) /\ longitude <= Deg(180)

\* C20: after any change or blur of the coordinate boxes the stored latitude
\* is in [-90, 90] and the stored longitude in [-180, 180], and a text that is
\* no number leaves the stored coordinate as it was: a coordinate changes only
\* in a step that leaves a numeric text in its box.
C20_CoordinatesClamped ==
    [][ /\ CoordinatesInRange'
        /\ (latitude' # latitude) => (latInput' \in NumericTexts)
        /\ (longitude' # longitude) => (lonInput' \in NumericTexts) ]_vars

\* the part of C20 that the code upholds: the ranges, and no change of a
\* coordinate on a text that Number() turns into NaN
C20_RangeAndNaN ==
    [][ /\ CoordinatesInRange'
        /\ (latitude' # latitude) => ~NumberOf(latInput').nan
        /\ (longitude' # longitude) => ~NumberOf(lonInput').nan ]_vars

---------------------------------------------------------------------------
(* The discipline of the loading flag (both variants)                      *)

\* the Run button of lines 408 and 839: disabled={loading}
RunEnabled == ~loading

\* a step in which a report build starts
BuildStarts == nStarted' = nStarted + 1

\* C27: at most one report build is in flight: a build starts only while
\* the Run control is enabled (loading false, no build under way), loading is
\* true exactly while a build is under way, every way a build ends leaves
\* loading false, and a step that starts no build and ends none leaves
\* loading as it was.
C27_OneBuildInFlight ==
    [][ /\ BuildStarts => (RunEnabled /\ pc = "idle")
        /\ loading <=> (pc # "idle")
        /\ loading' <=> (pc' # "idle")
        /\ (pc # "idle" /\ pc' = "idle") => ~loading'
        /\ (~BuildStarts /\ pc = "idle") => (loading' = loading /\ pc' = "idle")
      ]_vars

\* a second build has started after the first one ended, and is under way
C27_Witness ==
    /\ nStarted = 2 /\ loading /\ pc \in {"fanout", "peaks"}
    /\ ~RunEnabled

---------------------------------------------------------------------------
(* A failed fan-out of the first variant                                   *)

\* a step in which the fan-out of the first variant ends without publishing
FanoutFails == variant = 1 /\ pc = "fanout" /\ pc' = "idle" /\ ~hasResults'

\* the texts the catch of line 183 can show
FailureTexts == ErrMessages \cup {FailedToLoadInfo}

\* C28: when the fan-out of the first variant fails, the step changes none of
\* the NDVI series, peak indices, forecast dates and values, thumbnail URL
\* and analysis, hasResults is false and info holds the failure message; and
\* in the first variant the NDVI series and the peak indices change only in
\* a step that publishes a finished build, both at once.
C28_FailedFanoutKeepsResults ==
    [][ /\ FanoutFails =>
              /\ resultVars' = resultVars
              /\ hasResults' = FALSE
              /\ info' \in FailureTexts
        /\ (variant = 1 /\ (ndvi' # ndvi \/ peaks' # peaks)) =>
              /\ pc \in {"geocode", "fanout"} /\ pc' = "idle"
              /\ hasResults'
              /\ calls'["ndvi"] = "ok" <=> calls'["peaks"] = "ok"
      ]_vars

\* the second build failed in its fan-out: the series and the peak of the
\* first build are still stored, with the failure message
C28_Witness ==
    /\ variant = 1 /\ nStarted = 2 /\ pc = "idle" /\ ~loading
    /\ \E c \in Calls \ {"analysis"} : calls[c] = "fail"
    /\ ~hasResults /\ info \in FailureTexts
    /\ Len(ndvi) = 4 /\ peaks = <<2>>

---------------------------------------------------------------------------
(* Place-name resolution and the analytic calls                            *)

\* fetchAll is suspended at `await fetchLocationName(...)` (lines 146, 656)
\* and the back end is in use
AwaitingGeocoder == pc = "geocode" /\ ~FRONTEND_ONLY

\* C24: place-name resolution runs in parallel with the analytic calls: while
\* a build waits for the geocoder, its NDVI call has already been issued (a
\* slow geocoder does not delay the analytic calls).
C24_GeocodeInParallel ==
    AwaitingGeocoder => calls["ndvi"] # "none"

---------------------------------------------------------------------------
(* The context of the report (first variant, line 276)                     *)

\* summary.context: read from the input state at render time (the start and
\* end dates, read the same way, are not modelled)
summaryContext == [roi |-> roiSize, lat |-> latitude, lon |-> longitude]

\* the report section of line 479 is on screen
reportShown == hasResults /\ ~summary.isNull

\* the request whose answers are stored: the last one that reached the fan-out
producingRequest == fanLog[Len(fanLog)]

\* C26: the context of a report on screen is that of the request whose
\* upstream data the report was built from, also after the user has edited
\* the coordinate.
C26_ContextOfProducingRequest ==
    (variant = 1 /\ ~FRONTEND_ONLY /\ reportShown /\ Len(fanLog) > 0) =>
        /\ summaryContext.lat = producingRequest.latitude
        /\ summaryContext.lon = producingRequest.longitude
        /\ summaryContext.roi = producingRequest.roiSize

---------------------------------------------------------------------------
(* What a finished build leaves in the state the report is drawn from       *)

\* a step in which the fan-out of the first variant publishes
Publishes1 == variant = 1 /\ pc = "fanout" /\ pc' = "idle" /\ hasResults'

\* a step in which a frontend-only build ends
EndsFrontendOnly == FRONTEND_ONLY /\ pc' = "idle" /\ hasResults' /\ (BuildStarts \/ pc = "geocode")

\* C22: the state a report is drawn from is decided by the build that
\* produced it, whatever earlier builds left behind.  First variant: a
\* publishing step stores, for every call answered before the step, that
\* answer (series, peak indices, forecast or the skipped note, thumbnail), and
\* the info text is the skipped note or empty; a build that fails has no
\* report.  Second variant: the start of a build empties the series, the peak
\* indices, the analysis, the thumbnail and the info text, and afterwards each
\* is written from the answers of that build only.  A frontend-only build ends
\* with empty series and the fixed tile address and note.
C22_ReportFromThisBuildOnly ==
    [][ /\ Publishes1 =>
              /\ calls["ndvi"] = "ok" => ndvi' = resp.ndvi
              /\ calls["peaks"] = "ok" => peaks' = resp.peaks
              /\ calls["forecast"] = "ok" =>
                    /\ forecastDates' = (IF resp.forecast.skipped THEN <<>> ELSE resp.forecast.dates)
                    /\ forecastValues' = (IF resp.forecast.skipped THEN <<>> ELSE resp.forecast.values)
                    /\ info' = (IF resp.forecast.skipped THEN ForecastSkippedInfo ELSE Null)
              /\ calls["thumb"] = "ok" =>
                    thumbUrl' = (IF resp.thumb = "" THEN "" ELSE resp.thumb \o "?ts")
              /\ info' \in {Null, ForecastSkippedInfo}
        /\ (variant = 1 /\ pc # "idle" /\ pc' = "idle" /\ ~Publishes1 /\ ~EndsFrontendOnly) =>
              ~hasResults'
        /\ (variant = 2 /\ BuildStarts) =>
              /\ ndvi' = <<>> /\ peaks' = <<>> /\ analysis' = NullAnalysis
              /\ ~EndsFrontendOnly => (thumbUrl' = "" /\ info' = Null /\ ~hasResults')
        /\ (variant = 2 /\ ~BuildStarts) =>
              /\ ndvi' # ndvi => (pc = "ndvi" /\ ndvi' \in NdviResponses)
              /\ peaks' # peaks => (pc = "peaks" /\ peaks' \in PeaksResponses)
              /\ analysis' # analysis => (pc = "analysis" /\ analysis' \in AnalysisResponses)
              /\ thumbUrl' # thumbUrl => (pc \in {"geocode", "thumb"})
        /\ EndsFrontendOnly =>
              /\ ndvi' = <<>> /\ peaks' = <<>>
              /\ thumbUrl' = GibsUrl
              /\ info' = (IF variant = 1 THEN FrontendOnlyInfo1 ELSE FrontendOnlyInfo2)
      ]_vars

\* a second build of the first variant has published an empty peak list and
\* a skipped forecast over the results of a first build
C22_Witness ==
    /\ variant = 1 /\ nStarted = 2 /\ pc = "idle" /\ hasResults
    /\ Len(ndvi) = 4 /\ peaks = <<>> /\ forecastDates = <<>>
    /\ info = ForecastSkippedInfo

---------------------------------------------------------------------------
(* Builds in time: the end of each build is recorded                       *)

\* a step in which a fetchAll invocation ends
BuildEnds == (pc # "idle" /\ pc' = "idle") \/ (BuildStarts /\ pc' = "idle")

\* history: Date.now() at the end of the last build
Stamp == lastEndTime' = IF BuildEnds THEN clock' ELSE lastEndTime

NextTimed ==
    \/ Tick /\ Stamp
    \/ fetchAll1 /\ Stamp
    \/ GeocodeSettle1 /\ Stamp
    \/ CallResolve1 /\ Stamp
    \/ CallReject1 /\ Stamp
    \/ fetchAll2 /\ Stamp
    \/ GeocodeSettle2 /\ Stamp
    \/ NdviSettle2 /\ Stamp
    \/ PeaksSettle2 /\ Stamp
    \/ ThumbSettle2 /\ Stamp
    \/ AnalysisSettle2 /\ Stamp

SpecTimed == Init /\ [][NextTimed]_vars

\* C23: in the variant that debounces, no build starts less than 2000 ms
\* after the previous build ended (a request made then is a no-op), also when
\* that build ran for 2000 ms or longer.
C23_DebounceFromCompletion ==
    [][ (variant = 1 /\ BuildStarts /\ lastEndTime # 0) =>
            clock - lastEndTime >= DebounceMs ]_vars

---------------------------------------------------------------------------
(* Builds under fairness: what the code makes sure will happen             *)

\* The reverse-geocoding request is sent with `timeout: 5000` (lines 58 and
\* 602): it settles.  The axios.post calls of the fan-out (lines 160-164,
\* 676-730) are sent without a timeout (the axios default is none): nothing
\* makes them settle, so no fairness is assumed for them.
NextLive ==
    \/ fetchAll1 /\ UNCHANGED lastEndTime
    \/ GeocodeSettle1 /\ UNCHANGED lastEndTime
    \/ CallResolve1 /\ UNCHANGED lastEndTime
    \/ CallReject1 /\ UNCHANGED lastEndTime
    \/ fetchAll2 /\ UNCHANGED lastEndTime
    \/ GeocodeSettle2 /\ UNCHANGED lastEndTime
    \/ NdviSettle2 /\ UNCHANGED lastEndTime
    \/ PeaksSettle2 /\ UNCHANGED lastEndTime
    \/ ThumbSettle2 /\ UNCHANGED lastEndTime
    \/ AnalysisSettle2 /\ UNCHANGED lastEndTime

SpecLive ==
    /\ Init /\ [][NextLive]_vars
    /\ WF_vars(GeocodeSettle1 /\ UNCHANGED lastEndTime)
    /\ WF_vars(GeocodeSettle2 /\ UNCHANGED lastEndTime)

\* C25: every started build eventually finishes: loading returns to false
\* (and the Run control is enabled again).
C25_BuildEventuallyEnds == loading ~> RunEnabled

---------------------------------------------------------------------------
(* Builds with edited ROI size and threshold                                *)

NextValidate ==
    \/ ChangeRoiSize
    \/ ChangeThreshold
    \/ fetchAll1 /\ UNCHANGED lastEndTime
    \/ GeocodeSettle1 /\ UNCHANGED lastEndTime
    \/ CallResolve1 /\ UNCHANGED lastEndTime
    \/ CallReject1 /\ UNCHANGED lastEndTime
    \/ fetchAll2 /\ UNCHANGED lastEndTime
    \/ GeocodeSettle2 /\ UNCHANGED lastEndTime
    \/ NdviSettle2 /\ UNCHANGED lastEndTime
    \/ PeaksSettle2 /\ UNCHANGED lastEndTime
    \/ ThumbSettle2 /\ UNCHANGED lastEndTime
    \/ AnalysisSettle2 /\ UNCHANGED lastEndTime

SpecValidate == Init /\ [][NextValidate]_vars

\* an ROI size > 0 (tenths of a degree)
ValidRoi(r) == r # NaN /\ r > 0
\* a threshold in [0.1, 1.0] (thousandths)
ValidThreshold(t) == t # NaN /\ t >= 100 /\ t <= 1000

\* C21: no upstream call is made with an ROI size that is not > 0 or a
\* threshold outside [0.1, 1.0]: such a request is rejected before any call.
C21_InvalidInputRejected ==
    \A i \in 1 .. Len(fanLog) :
        ValidRoi(fanLog[i].roiSize) /\ ValidThreshold(fanLog[i].threshold)

\* the second variant never sends a threshold outside [0.1, 1.0], but does
\* send an ROI size that is not a number
C21_SecondVariantThreshold ==
    variant = 2 => \A i \in 1 .. Len(fanLog) : ValidThreshold(fanLog[i].threshold)

C21_SecondVariantRoi ==
    variant = 2 => \A i \in 1 .. Len(fanLog) : ValidRoi(fanLog[i].roiSize)

==========================================================================
